---------------------------- MODULE Spec2Model ----------------------------
(***************************************************************************)
(* websessn, src/token.rs: session tokens with a validity window, built on *)
(* the jsonwebtoken crate.                                                 *)
(*                                                                         *)
(* encode / encode_internal build a Claims envelope {exp, nbf, inner} and  *)
(* sign it (HS256, default header); decode verifies a token against a key  *)
(* and the process-wide VALIDATION policy (nbf and exp required and        *)
(* checked, the crate's default 60 second leeway) and returns inner.       *)
(*                                                                         *)
(* A token string is modelled as a sequence of symbols, one per encoded    *)
(* item: the header, the two '.' separators, one symbol per serialized     *)
(* claim and the signature.  A symbol is a tuple whose first element       *)
(* names its kind.  The HMAC is an ideal MAC: the signature symbol         *)
(* determines the key, the algorithm and the signed message.               *)
(***************************************************************************)
EXTENDS Integers, Sequences, FiniteSets

VARIABLES
    clock,       \* the wall clock, whole seconds since UNIX_EPOCH
    VALIDATION,  \* the lazy_static jwt::Validation: <<>> until first used
    tok,         \* the token string in the caller's hands (<<>>: none yet)
    meta,        \* the arguments of the latest call that was to build a token
    ret,         \* the outcome of the latest call
    prev         \* the outcome of the decode call before it, on the same tok

vars == <<clock, VALIDATION, tok, meta, ret, prev>>

---------------------------------------------------------------------------
(* Bounds of the model *)

\* the first clock reading of a behaviour
ClockStart == 1000
\* how many seconds the clock may advance within a behaviour
ClockSpan == 2
\* the stand-in for u64::MAX, the largest number of seconds of a Duration
U64_MAX == 4095

(* Program constants *)

\* jsonwebtoken's default leeway, kept by VALIDATION
LEEWAY == 60
\* std::time::Duration keeps nanoseconds below one second
NANOS_PER_SEC == 1000000000

Payloads == {"superadmin", "guest"}
Keys == {"secret", "other"}
Nanos == {0, NANOS_PER_SEC \div 2}

Secs(s) == [secs |-> s, nanos |-> 0]
DurationMAX == [secs |-> U64_MAX, nanos |-> NANOS_PER_SEC - 1]

\* validity durations handed to encode
Lengths ==
    {Secs(0), [secs |-> 0, nanos |-> NANOS_PER_SEC \div 2], Secs(1), Secs(300),
     DurationMAX}

\* issuance times injected into encode_internal, relative to the clock
Offsets == {-600, -61, -60, 0, 60, 61, 300}

InjectedTimes(now) ==
    {[secs |-> now + o, nanos |-> n] : o \in Offsets, n \in Nanos}

---------------------------------------------------------------------------
(* std::time::Duration *)

\* Duration + Duration is checked_add(..).expect("overflow when adding
\* durations"): whether the sum is beyond the largest Duration
AddOverflows(a, b) ==
    a.secs + b.secs + (IF a.nanos + b.nanos >= NANOS_PER_SEC THEN 1 ELSE 0)
        > U64_MAX

DurationAdd(a, b) ==
    LET n == a.nanos + b.nanos
        carry == IF n >= NANOS_PER_SEC THEN 1 ELSE 0
    IN  [secs |-> a.secs + b.secs + carry, nanos |-> n - carry * NANOS_PER_SEC]

as_secs(d) == d.secs

---------------------------------------------------------------------------
(* The token string *)

Dot == <<"dot">>
\* a byte outside the base64url alphabet
Bad == <<"bad">>

Field(name, value) == <<name, value>>
IsField(sym) == Len(sym) = 2

\* jwt::Header::default(): {"typ":"JWT","alg":"HS256"}
HeaderDefault == Field("alg", "HS256")

\* as sign, with a MAC that does not depend on the key
sign_keyless(message, key, alg) == <<"sig", "", alg, message>>

\* HMAC over the message under the key
sign(message, key, alg) == <<"sig", key, alg, message>>

\* as SerializeClaims, with the two timestamps under each other's name
SerializeClaims_swapped(claims) ==
    <<Field("exp", claims.nbf), Field("nbf", claims.exp),
      Field("inner", claims.inner)>>

\* #[derive(Serialize)] struct Claims: the fields in declaration order
SerializeClaims(claims) ==
    <<Field("exp", claims.exp), Field("nbf", claims.nbf),
      Field("inner", claims.inner)>>

\* jwt::encode(&header, &claims, key): header '.' claims '.' signature
jwt_encode(header, claimsSeg, key) ==
    LET message == <<header>> \o <<Dot>> \o claimsSeg
    IN  message \o <<Dot>> \o <<sign(message, key, header[2])>>

Err(kind) == [kind |-> "Err", val |-> kind]
Ok(v) == [kind |-> "Ok", val |-> v]
Panic(msg) == [kind |-> "Panic", val |-> msg]

\* as BuildClaims, with exp the validity itself, not added to the current time
BuildClaims_relative_exp(inner, length, current_time_since_epoch) ==
    [nbf |-> as_secs(current_time_since_epoch),
     exp |-> as_secs(length),
     inner |-> inner]

\* the Claims value of encode_internal
BuildClaims(inner, length, current_time_since_epoch) ==
    [nbf |-> as_secs(current_time_since_epoch),
     exp |-> as_secs(DurationAdd(current_time_since_epoch, length)),
     inner |-> inner]

encode_internal(inner, length, ek, current_time_since_epoch) ==
    IF AddOverflows(current_time_since_epoch, length)
    THEN Panic("overflow when adding durations")
    ELSE Ok(jwt_encode(HeaderDefault,
                       SerializeClaims(BuildClaims(inner, length,
                                                   current_time_since_epoch)),
                       ek))

---------------------------------------------------------------------------
(* jsonwebtoken's decode, as decode calls it *)

\* as ValidationValue, without the line that switches validate_nbf on
ValidationValue_nbf_off ==
    [algorithms |-> {"HS256"},
     leeway |-> LEEWAY,
     required_spec_claims |-> {"nbf", "exp"},
     validate_exp |-> TRUE,
     validate_nbf |-> FALSE]

\* lazy_static VALIDATION: Validation::default() (HS256, leeway 60,
\* validate_exp) with nbf and exp required and validate_nbf switched on
ValidationValue ==
    [algorithms |-> {"HS256"},
     leeway |-> LEEWAY,
     required_spec_claims |-> {"nbf", "exp"},
     validate_exp |-> TRUE,
     validate_nbf |-> TRUE]

RECURSIVE LastDot(_)
\* str::rsplitn(2, '.'): the index of the last '.', 0 when there is none
LastDot(s) ==
    IF s = <<>> THEN 0
    ELSE IF s[Len(s)] = Dot THEN Len(s)
    ELSE LastDot(SubSeq(s, 1, Len(s) - 1))

IsB64(seg) == \A i \in 1..Len(seg) : seg[i] # Bad /\ seg[i] # Dot

\* the values of the entries called name in a serialized JSON object
Values(seg, name) ==
    {seg[i][2] : i \in {j \in 1..Len(seg) : IsField(seg[j]) /\ seg[j][1] = name}}
Count(seg, name) ==
    Cardinality({j \in 1..Len(seg) : IsField(seg[j]) /\ seg[j][1] = name})

\* Header::from_encoded: "" when the segment is a header, else the error
HeaderError(seg) ==
    IF ~IsB64(seg) THEN "Base64"
    ELSE IF Len(seg) # 1 \/ ~IsField(seg[1]) THEN "Json"
    ELSE IF seg[1][1] # "alg" THEN "Json"
    ELSE ""

\* #[derive(Deserialize)] struct Claims: every field once, by name
ClaimsError(seg) ==
    IF ~IsB64(seg) THEN "Base64"
    ELSE IF \E i \in 1..Len(seg) : ~IsField(seg[i]) THEN "Json"
    ELSE IF \E f \in {"exp", "nbf", "inner"} : Count(seg, f) # 1 THEN "Json"
    ELSE ""

DeserializeClaims(seg) ==
    [f \in {"exp", "nbf", "inner"} |-> CHOOSE v \in Values(seg, f) : TRUE]

\* as validate, with a token already expired at exp + leeway
validate_exclusive(seg, options, now) ==
    IF \E c \in options.required_spec_claims : Count(seg, c) = 0
    THEN "MissingRequiredClaim"
    ELSE IF options.validate_exp
            /\ \E e \in Values(seg, "exp") : e <= now - options.leeway
    THEN "ExpiredSignature"
    ELSE IF options.validate_nbf
            /\ \E n \in Values(seg, "nbf") : n > now + options.leeway
    THEN "ImmatureSignature"
    ELSE ""

\* validation::validate: required claims, then exp, then nbf, with leeway
validate(seg, options, now) ==
    IF \E c \in options.required_spec_claims : Count(seg, c) = 0
    THEN "MissingRequiredClaim"
    ELSE IF options.validate_exp
            /\ \E e \in Values(seg, "exp") : e < now - options.leeway
    THEN "ExpiredSignature"
    ELSE IF options.validate_nbf
            /\ \E n \in Values(seg, "nbf") : n > now + options.leeway
    THEN "ImmatureSignature"
    ELSE ""

\* as jwt_decode, without the comparison of the signature
jwt_decode_nosig(token, key, validation, now) ==
    LET i2 == LastDot(token)
        message == SubSeq(token, 1, i2 - 1)
        i1 == LastDot(message)
        payload == SubSeq(message, i1 + 1, Len(message))
        header == SubSeq(message, 1, i1 - 1)
    IN  IF i2 = 0 \/ i1 = 0 THEN Err("InvalidToken")
        ELSE IF HeaderError(header) # "" THEN Err(HeaderError(header))
        ELSE IF header[1][2] \notin validation.algorithms
        THEN Err("InvalidAlgorithm")
        ELSE IF ClaimsError(payload) # "" THEN Err(ClaimsError(payload))
        ELSE IF validate(payload, validation, now) # ""
        THEN Err(validate(payload, validation, now))
        ELSE Ok(DeserializeClaims(payload))

\* as jwt_decode, with the claims validated before the signature is compared
jwt_decode_validate_first(token, key, validation, now) ==
    LET i2 == LastDot(token)
        signature == SubSeq(token, i2 + 1, Len(token))
        message == SubSeq(token, 1, i2 - 1)
        i1 == LastDot(message)
        payload == SubSeq(message, i1 + 1, Len(message))
        header == SubSeq(message, 1, i1 - 1)
    IN  IF i2 = 0 \/ i1 = 0 THEN Err("InvalidToken")
        ELSE IF HeaderError(header) # "" THEN Err(HeaderError(header))
        ELSE IF header[1][2] \notin validation.algorithms
        THEN Err("InvalidAlgorithm")
        ELSE IF ClaimsError(payload) # "" THEN Err(ClaimsError(payload))
        ELSE IF validate(payload, validation, now) # ""
        THEN Err(validate(payload, validation, now))
        ELSE IF signature # <<sign(message, key, header[1][2])>>
        THEN Err("InvalidSignature")
        ELSE Ok(DeserializeClaims(payload))

\* jwt::decode::<Claims<T>>(token, key, validation) at clock reading now
jwt_decode(token, key, validation, now) ==
    LET i2 == LastDot(token)
        signature == SubSeq(token, i2 + 1, Len(token))
        message == SubSeq(token, 1, i2 - 1)
        i1 == LastDot(message)
        payload == SubSeq(message, i1 + 1, Len(message))
        header == SubSeq(message, 1, i1 - 1)
    IN  IF i2 = 0 \/ i1 = 0 THEN Err("InvalidToken")
        ELSE IF HeaderError(header) # "" THEN Err(HeaderError(header))
        ELSE IF header[1][2] \notin validation.algorithms
        THEN Err("InvalidAlgorithm")
        ELSE IF signature # <<sign(message, key, header[1][2])>>
        THEN Err("InvalidSignature")
        ELSE IF ClaimsError(payload) # "" THEN Err(ClaimsError(payload))
        ELSE IF validate(payload, validation, now) # ""
        THEN Err(validate(payload, validation, now))
        ELSE Ok(DeserializeClaims(payload))

\* as decode, reading inner from a payload-only envelope under a validation
\* that requires and checks no claim
decode_unvalidated(token, dk, validation, now) ==
    LET i2 == LastDot(token)
        signature == SubSeq(token, i2 + 1, Len(token))
        message == SubSeq(token, 1, i2 - 1)
        i1 == LastDot(message)
        payload == SubSeq(message, i1 + 1, Len(message))
        header == SubSeq(message, 1, i1 - 1)
    IN  IF i2 = 0 \/ i1 = 0 THEN Err("InvalidToken")
        ELSE IF HeaderError(header) # "" THEN Err(HeaderError(header))
        ELSE IF header[1][2] \notin validation.algorithms
        THEN Err("InvalidAlgorithm")
        ELSE IF signature # <<sign(message, dk, header[1][2])>>
        THEN Err("InvalidSignature")
        ELSE IF ~IsB64(payload) THEN Err("Base64")
        ELSE IF Count(payload, "inner") # 1 THEN Err("Json")
        ELSE Ok(CHOOSE v \in Values(payload, "inner") : TRUE)

\* decode: jwt::decode(..).map(|x| x.claims.inner)
decode(token, dk, validation, now) ==
    LET r == jwt_decode(token, dk, validation, now)
    IN  IF r.kind = "Ok" THEN Ok(r.val["inner"]) ELSE r

---------------------------------------------------------------------------
(* The calls *)

NoMeta ==
    [src |-> "none", inner |-> "", length |-> Secs(0), cur |-> Secs(0),
     ek |-> "", tampered |-> FALSE]
NoRet == [op |-> "none", dk |-> "", at |-> 0, out |-> Ok("")]

Returned(op, out) == [op |-> op, dk |-> "", at |-> 0, out |-> out]

Init ==
    /\ clock = ClockStart
    /\ VALIDATION = <<>>
    /\ tok = <<>>
    /\ meta = NoMeta
    /\ ret = NoRet
    /\ prev = NoRet

\* time passes
Tick ==
    /\ clock < ClockStart + ClockSpan
    /\ clock' = clock + 1
    /\ UNCHANGED <<VALIDATION, tok, meta, ret, prev>>

\* a call of encode_internal returns: the caller holds the token, or the
\* call panicked and the caller holds none
Issue(op, inner, length, ek, cur) ==
    LET out == encode_internal(inner, length, ek, cur)
    IN  IF out.kind = "Ok"
        THEN /\ tok' = out.val
             /\ meta' = [src |-> "issued", inner |-> inner, length |-> length,
                         cur |-> cur, ek |-> ek, tampered |-> FALSE]
             /\ ret' = Returned(op, Ok("token"))
             /\ prev' = NoRet
        ELSE /\ meta' = [src |-> "aborted", inner |-> inner, length |-> length,
                         cur |-> cur, ek |-> ek, tampered |-> FALSE]
             /\ ret' = Returned(op, out)
             /\ UNCHANGED <<tok, prev>>

\* encode_internal with an injected current time
EncodeInternal ==
    /\ tok = <<>>
    /\ \E inner \in Payloads, length \in Lengths, ek \in Keys,
          cur \in InjectedTimes(clock) :
            Issue("encode_internal", inner, length, ek, cur)
    /\ UNCHANGED <<clock, VALIDATION>>

\* encode: SystemTime::now().duration_since(UNIX_EPOCH).expect(..), then
\* encode_internal; the clock may stand before the epoch
Encode ==
    /\ tok = <<>>
    /\ \E inner \in Payloads, length \in Lengths, ek \in Keys, n \in Nanos,
          available \in BOOLEAN :
            IF available
            THEN Issue("encode", inner, length, ek,
                       [secs |-> clock, nanos |-> n])
            ELSE /\ ret' = Returned("encode",
                        Panic("pretty sure rust hasn't been invented yet..."))
                 /\ UNCHANGED <<tok, meta, prev>>
    /\ UNCHANGED <<clock, VALIDATION>>

\* envelopes a holder of the key signs with jwt::encode that are no Claims:
\* a temporal claim is missing
ForeignEnvelopes(now) ==
    {<<Field("exp", now + 300), Field("inner", "guest")>>,
     <<Field("nbf", now), Field("inner", "guest")>>,
     <<Field("inner", "guest")>>}

SignForeign ==
    /\ tok = <<>>
    /\ \E seg \in ForeignEnvelopes(clock), ek \in Keys :
         /\ tok' = jwt_encode(HeaderDefault, seg, ek)
         /\ meta' = [NoMeta EXCEPT !.src = "foreign", !.ek = ek]
    /\ ret' = Returned("jwt::encode", Ok("token"))
    /\ prev' = NoRet
    /\ UNCHANGED <<clock, VALIDATION>>

\* the message a token's signature was made over
Signed(token) == SubSeq(token, 1, LastDot(token) - 1)

\* the bytes a modified position may come to hold
TamperBytes(token) ==
    {Dot, Bad, Field("alg", "HS384"), Field("exp", U64_MAX), Field("nbf", 0)}
        \cup {Field("inner", p) : p \in Payloads}
        \cup {sign(Signed(token), k, "HS256") : k \in Keys}

\* one byte of an issued token is modified on its way back
Tamper ==
    /\ meta.src = "issued"
    /\ ~meta.tampered
    /\ \E i \in 1..Len(tok), b \in TamperBytes(tok) :
         /\ b # tok[i]
         /\ tok' = [tok EXCEPT ![i] = b]
    /\ meta' = [meta EXCEPT !.tampered = TRUE]
    /\ prev' = NoRet
    /\ ret' = NoRet
    /\ UNCHANGED <<clock, VALIDATION>>

\* as Decode, with the verdict on a token remembered from the call before
Decode_memo ==
    /\ tok # <<>>
    /\ VALIDATION' = IF VALIDATION = <<>> THEN <<ValidationValue>> ELSE VALIDATION
    /\ \E dk \in Keys :
         ret' = [op |-> "decode", dk |-> dk, at |-> clock,
                 out |-> IF ret.op = "decode" /\ ret.dk = dk
                         THEN ret.out
                         ELSE decode(tok, dk, VALIDATION'[1], clock)]
    /\ prev' = IF ret.op = "decode" THEN ret ELSE prev
    /\ UNCHANGED <<clock, tok, meta>>

\* decode(tok, dk) at the current clock reading; the first call
\* initialises VALIDATION
Decode ==
    /\ tok # <<>>
    /\ VALIDATION' = IF VALIDATION = <<>> THEN <<ValidationValue>> ELSE VALIDATION
    /\ \E dk \in Keys :
         ret' = [op |-> "decode", dk |-> dk, at |-> clock,
                 out |-> decode(tok, dk, VALIDATION'[1], clock)]
    /\ prev' = IF ret.op = "decode" THEN ret ELSE prev
    /\ UNCHANGED <<clock, tok, meta>>

\* the caller lets go of the token it held
Drop ==
    /\ tok # <<>>
    /\ tok' = <<>>
    /\ meta' = NoMeta
    /\ ret' = NoRet
    /\ prev' = NoRet
    /\ UNCHANGED <<clock, VALIDATION>>

Next ==
    \/ Tick
    \/ EncodeInternal
    \/ Encode
    \/ SignForeign
    \/ Tamper
    \/ Decode
    \/ Drop

Spec == Init /\ [][Next]_vars

---------------------------------------------------------------------------
(* The claims *)

\* tok is a token encode / encode_internal returned, byte for byte
Pristine == meta.src = "issued" /\ ~meta.tampered
\* the claims of a pristine token, read off the token string
TokExp == tok[3][2]
TokNbf == tok[4][2]
\* the latest call was a decode of a pristine token under the issuing key
DecodedOwn == ret.op = "decode" /\ Pristine /\ ret.dk = meta.ek
\* the error kinds of a token that is no validly signed envelope
Malformed == {"InvalidToken", "Base64", "Json", "InvalidAlgorithm",
              "MissingRequiredClaim"}
Temporal == {"ExpiredSignature", "ImmatureSignature"}
\* the signature segment of token is the MAC of its message under dk
SignatureValid(token, dk) ==
    /\ LastDot(token) # 0
    /\ SubSeq(token, LastDot(token) + 1, Len(token))
           = <<sign(Signed(token), dk, "HS256")>>

\* C1: a token decoded under the issuing key at the second it was issued
\* at (whatever the validity, zero included) yields Ok of the payload issued.
C1_RoundTrip ==
    (DecodedOwn /\ ret.at = as_secs(meta.cur)) => ret.out = Ok(meta.inner)

C1_Witness ==
    /\ DecodedOwn
    /\ ret.at = as_secs(meta.cur)
    /\ meta.length = Secs(0)
    /\ ret.out = Ok(meta.inner)

\* C2: under the issuing key a token is accepted at exactly exp + 60 and
\* rejected as expired at every later second.
C2_ExpiryBoundary ==
    DecodedOwn =>
        /\ ret.at = TokExp + 60 => ret.out = Ok(meta.inner)
        /\ ret.at > TokExp + 60 => ret.out = Err("ExpiredSignature")

C2_Witness ==
    /\ DecodedOwn
    /\ prev.op = "decode" /\ prev.dk = ret.dk
    /\ prev.at = TokExp + 60 /\ prev.out = Ok(meta.inner)
    /\ ret.at = TokExp + 61 /\ ret.out = Err("ExpiredSignature")

\* C3: under the issuing key a token whose nbf is later than now + 60 is
\* rejected as not yet valid, one with nbf <= now + 60 is not, and a token
\* issued 300 seconds ahead of now is rejected.
C3_NotYetValid ==
    DecodedOwn =>
        /\ TokNbf > ret.at + 60 => ret.out = Err("ImmatureSignature")
        /\ TokNbf <= ret.at + 60 => ret.out # Err("ImmatureSignature")
        /\ as_secs(meta.cur) = ret.at + 300 => ret.out.kind = "Err"

C3_Witness ==
    /\ DecodedOwn
    /\ TokNbf = ret.at + 61
    /\ ret.out = Err("ImmatureSignature")

\* C4 as stated: every single-byte modification of an issued token makes
\* decode under the issuing key return a signature error.
C4_TamperSignatureError ==
    (ret.op = "decode" /\ meta.tampered /\ ret.dk = meta.ek)
        => ret.out = Err("InvalidSignature")

\* C4 as amended: every single-byte modification of an issued token makes
\* decode under the issuing key return an error, a signature error or a
\* malformed-token error (InvalidToken, Base64, Json, InvalidAlgorithm);
\* decode never returns Ok, so never a payload other than the one issued.
C4_TamperRejected ==
    (ret.op = "decode" /\ meta.tampered /\ ret.dk = meta.ek)
        => /\ ret.out.kind = "Err"
           /\ ret.out.val \in
                {"InvalidSignature", "InvalidToken", "Base64", "Json",
                 "InvalidAlgorithm"}

\* a payload byte was replaced by another payload, inside the validity window
C4_Witness ==
    /\ ret.op = "decode" /\ meta.tampered /\ ret.dk = meta.ek
    /\ Len(tok) = 7 /\ tok[5][1] = "inner" /\ tok[5][2] # meta.inner
    /\ ret.out = Err("InvalidSignature")

\* C5: a token decoded under a key other than the issuing key fails with a
\* signature error at every verification time.
C5_WrongKey ==
    (ret.op = "decode" /\ Pristine /\ ret.dk # meta.ek)
        => ret.out = Err("InvalidSignature")

C5_Witness ==
    /\ ret.op = "decode" /\ Pristine /\ ret.dk # meta.ek
    /\ TokNbf <= ret.at /\ ret.at <= TokExp
    /\ ret.out = Err("InvalidSignature")

\* C6: a token signed under the key whose envelope lacks nbf, exp or both is
\* rejected as malformed at every verification time, and never decoded to Ok.
C6_RequiredClaims ==
    (ret.op = "decode" /\ meta.src = "foreign")
        => /\ ret.out.kind = "Err"
           /\ ret.dk = meta.ek
                => ret.out.val \in {"Json", "MissingRequiredClaim"}

\* signed under the key, exp present and in the future, nbf missing
C6_Witness ==
    /\ ret.op = "decode" /\ meta.src = "foreign" /\ ret.dk = meta.ek
    /\ SignatureValid(tok, ret.dk)
    /\ Count(SubSeq(tok, 3, Len(tok) - 2), "nbf") = 0
    /\ Count(SubSeq(tok, 3, Len(tok) - 2), "exp") = 1
    /\ ret.out.kind = "Err"

\* C7: the envelope of every issued token has exp >= nbf, with exp = nbf
\* when the validity is zero.
C7_Envelope ==
    Pristine =>
        /\ TokExp >= TokNbf
        /\ meta.length = Secs(0) => TokExp = TokNbf

C7_Witness ==
    /\ Pristine /\ ret.op = "encode_internal"
    /\ meta.length = Secs(0)
    /\ TokExp = TokNbf

\* C8: two decode calls on the same token under the same key at the same
\* second return the same result, and a token rejected as not yet valid is
\* accepted by a later decode under the same key inside its window.
C8_Stateless ==
    (ret.op = "decode" /\ prev.op = "decode" /\ prev.dk = ret.dk) =>
        /\ prev.at = ret.at => prev.out = ret.out
        /\ ( /\ Pristine
              /\ prev.out = Err("ImmatureSignature")
              /\ TokNbf <= ret.at + 60
              /\ ret.at <= TokExp + 60 )
               => ret.out = Ok(meta.inner)

C8_Witness ==
    /\ ret.op = "decode" /\ prev.op = "decode" /\ prev.dk = ret.dk
    /\ Pristine
    /\ prev.out = Err("ImmatureSignature")
    /\ ret.out = Ok(meta.inner)

\* C9: encode and encode_internal return a token for every payload, every
\* validity up to the largest Duration and every clock reading: the only
\* abort is an unavailable clock.
C9_IssueTotal ==
    (ret.op \in {"encode", "encode_internal"} /\ ret.out.kind = "Panic")
        => ret.out.val = "pretty sure rust hasn't been invented yet..."

\* C10: a token whose signature does not verify under the key supplied is
\* rejected with a signature or malformed-token error even when it is also
\* expired or not yet valid: a temporal error is returned only for a token
\* whose signature is valid.
C10_SignatureFirst ==
    ret.op = "decode" =>
        /\ (ret.out.kind = "Err" /\ ret.out.val \in Temporal)
               => SignatureValid(tok, ret.dk)
        /\ ~SignatureValid(tok, ret.dk)
               => /\ ret.out.kind = "Err"
                  /\ ret.out.val \in Malformed \cup {"InvalidSignature"}

\* an expired token under the wrong key
C10_Witness ==
    /\ ret.op = "decode" /\ Pristine /\ ret.dk # meta.ek
    /\ TokExp + 60 < ret.at
    /\ ret.out = Err("InvalidSignature")

===========================================================================
